---------------------------- MODULE Spec2Model ----------------------------
(***************************************************************************)
(* Model of src/ai_risk_screening.py: the questionnaire answers, the five  *)
(* dimension scores, the weighted total, the decision matrix, the          *)
(* heuristic risk table, the AI-assisted risk generation with its          *)
(* fallback, and the routing (webhook / email) of the result payload.      *)
(*                                                                         *)
(* Conventions.                                                            *)
(*  - A Python str that is split or stripped is a sequence of atoms: a     *)
(*    comma ",", a blank " ", or a chunk of other characters.  Join turns  *)
(*    such a sequence into one value.                                      *)
(*  - A component of a score is kept in tenths (4.5 is 45) and a score in  *)
(*    hundredths (2.62 is 262), so round(x, 2) is integer arithmetic.      *)
(*  - A Python dict is a record.  A Python value that is not a dict and    *)
(*    stands where a dict is expected is a record with the field pytype.   *)
(***************************************************************************)
EXTENDS Integers, Sequences, FiniteSets, TLC

VARIABLES
    pc,                  \* position of the script run
    answers,             \* widget values of the form (lines 69-127)
    data_sources,        \* line 89
    performance_metrics, \* line 103
    regs,                \* line 118
    components,          \* the five *_risk_components lists (lines 134-171)
    scores,              \* the "scores" of the payload (lines 140-183, 322-331)
    heuristic_risks,     \* lines 186-231
    fault,               \* exception that left the script, or "none"
    secrets,             \* keys present in st.secrets
    ai,                  \* what generate_ai_risks did: risks, requests, outcome
    payload,             \* the payload (lines 299-332, 377)
    warnings,            \* st.warning messages shown
    routed,              \* line 392
    delivery,            \* outcome of the webhook and of the email step
    call,                \* a helper called on its own: its name and arguments
    returned             \* what that call returned

vars == <<pc, answers, data_sources, performance_metrics, regs, components,
          scores, heuristic_risks, fault, secrets, ai, payload, warnings,
          routed, delivery, call, returned>>

formVars == <<answers, secrets>>
callVars == <<call, returned>>
scoreVars == <<data_sources, performance_metrics, regs, components, scores,
               heuristic_risks>>
submitVars == <<ai, payload, warnings, routed, delivery>>

----------------------------------------------------------------------------
(* Bounds *)

\* items in the "risks" list of an AI response
MaxAIRisks == 2
\* options selected in a multiselect given to enrich_with_other
MaxSelected == 2
\* atoms of the text given to enrich_with_other
MaxText == 3

----------------------------------------------------------------------------
(* Sequences and text *)

Contains(seq, x) == \E i \in 1..Len(seq) : seq[i] = x

RECURSIVE SumSeq(_)
SumSeq(seq) == IF seq = <<>> THEN 0 ELSE Head(seq) + SumSeq(Tail(seq))

Max(S) == CHOOSE m \in S : \A x \in S : x <= m

RECURSIVE split(_, _)
\* str.split(sep): the pieces between the separators, empty pieces kept
split(text, sep) ==
    IF ~Contains(text, sep) THEN <<text>>
    ELSE LET i == CHOOSE k \in 1..Len(text) :
                      text[k] = sep /\ \A j \in 1..(k-1) : text[j] # sep
         IN  <<SubSeq(text, 1, i-1)>> \o split(SubSeq(text, i+1, Len(text)), sep)

RECURSIVE lstrip(_)
lstrip(text) ==
    IF text # <<>> /\ Head(text) = " " THEN lstrip(Tail(text)) ELSE text

RECURSIVE rstrip(_)
rstrip(text) ==
    IF text # <<>> /\ text[Len(text)] = " "
    THEN rstrip(SubSeq(text, 1, Len(text)-1)) ELSE text

\* str.strip(): leading and trailing blanks removed
strip(text) == rstrip(lstrip(text))

RECURSIVE Join(_)
\* the str a sequence of atoms spells
Join(text) == IF text = <<>> THEN "" ELSE Head(text) \o Join(Tail(text))

\* [x.strip() for x in other_text.split(",") if x.strip()]     (line 24)
extras(other_text) ==
    LET pieces == split(other_text, ",")
        kept   == SelectSeq(pieces, LAMBDA x : strip(x) # <<>>)
    IN  [i \in 1..Len(kept) |-> Join(strip(kept[i]))]

\* a faulty variant of enrich_with_other: the free text is appended even when
\* "Other" was not selected
enrich_with_other_always(selected_list, other_text) ==
    LET kept == SelectSeq(selected_list, LAMBDA s : s # "Other")
    IN  IF other_text # <<>> /\ strip(other_text) # <<>>
        THEN kept \o extras(other_text)
        ELSE kept

\* lines 20-26
enrich_with_other(selected_list, other_text) ==
    IF Contains(selected_list, "Other")
    THEN LET kept == SelectSeq(selected_list, LAMBDA s : s # "Other")
         IN  IF other_text # <<>> /\ strip(other_text) # <<>>
             THEN kept \o extras(other_text)
             ELSE kept
    ELSE selected_list

----------------------------------------------------------------------------
(* Scoring helpers *)

\* round(num/den * 0.01-units): nearest integer, a tie to the even one, as
\* Python's round does on a value that is exact in binary
PyRound(num, den) ==
    LET q == num \div den
        r == num % den
    IN  IF 2 * r < den THEN q
        ELSE IF 2 * r > den THEN q + 1
        ELSE IF q % 2 = 0 THEN q ELSE q + 1

\* round(sum(c) / len(c), 2), c in tenths, the result in hundredths
MeanScore(c) == PyRound(SumSeq(c) * 10, Len(c))

SourceMapping == [Internal |-> 2, External |-> 3, Third_party |-> 4]
SourceKey(s) == IF s = "Third-party" THEN "Third_party" ELSE s
InMapping(s) == s \in {"Internal", "External", "Third-party"}

\* lines 28-32; max() of an empty list raises ValueError
max_source_risk(sources) ==
    IF sources = <<>> THEN [exc |-> "none", val |-> 3]
    ELSE LET mapped == {SourceMapping[SourceKey(sources[i])] :
                            i \in {j \in 1..Len(sources) : InMapping(sources[j])}}
         IN  IF mapped = {} THEN [exc |-> "ValueError", val |-> 0]
             ELSE [exc |-> "none", val |-> Max(mapped)]

\* lines 34-38
regulatory_base_risk(rs) ==
    IF \E i \in 1..Len(rs) : rs[i] \in {"GDPR", "HIPAA", "RBI"} THEN 4
    ELSE IF Len(rs) > 0 THEN 3
    ELSE 2

\* a faulty variant of categorize_total_risk: the High threshold is exclusive
categorize_total_risk_strict(total) ==
    IF total > 350 THEN "High"
    ELSE IF total >= 250 THEN "Medium"
    ELSE "Low"

\* lines 40-43, total in hundredths
categorize_total_risk(total) ==
    IF total >= 350 THEN "High"
    ELSE IF total >= 250 THEN "Medium"
    ELSE "Low"

\* a faulty variant of decision_matrix: line 48 is missing
decision_matrix_no_medium(risk_level, criticality) ==
    IF risk_level = "Low" THEN "Approve"
    ELSE IF risk_level = "Medium" /\ criticality = "High" THEN "Approve with conditions"
    ELSE IF risk_level = "High" /\ criticality = "High" THEN "Escalate for detailed review"
    ELSE IF risk_level = "High" THEN "Reject or redesign"
    ELSE "Review"

\* lines 45-51
decision_matrix(risk_level, criticality) ==
    IF risk_level = "Low" THEN "Approve"
    ELSE IF risk_level = "Medium" /\ criticality = "High" THEN "Approve with conditions"
    ELSE IF risk_level = "Medium" THEN "Approve"
    ELSE IF risk_level = "High" /\ criticality = "High" THEN "Escalate for detailed review"
    ELSE IF risk_level = "High" THEN "Reject or redesign"
    ELSE "Review"

\* a faulty variant of performance_metrics_risk: only the first metric is
\* looked up among the standard ones
performance_metrics_risk_first_only(metrics) ==
    IF metrics = <<>> THEN 45
    ELSE LET std == {"Accuracy", "Precision", "Recall", "F1 Score"}
             only_accuracy == (metrics = <<"Accuracy">>)
             has_std == metrics[1] \in std
         IN  IF only_accuracy THEN 35
             ELSE IF has_std THEN 20
             ELSE 30

\* lines 53-60, in tenths
performance_metrics_risk(metrics) ==
    IF metrics = <<>> THEN 45
    ELSE LET std == {"Accuracy", "Precision", "Recall", "F1 Score"}
             only_accuracy == (metrics = <<"Accuracy">>)
             has_std == \E i \in 1..Len(metrics) : metrics[i] \in std
         IN  IF only_accuracy THEN 35
             ELSE IF has_std THEN 20
             ELSE 30

\* a faulty variant of add_risk: the finding is put in front
add_risk_front(risks, category, description, severity, recommendation) ==
    <<[Category |-> category, Risk |-> description,
       Severity |-> severity, Recommended_Control |-> recommendation]>> \o risks

\* lines 62-63
add_risk(risks, category, description, severity, recommendation) ==
    Append(risks, [Category |-> category, Risk |-> description,
                   Severity |-> severity, Recommended_Control |-> recommendation])


----------------------------------------------------------------------------
(* The form: lines 69-127 *)

YesNo == {"Yes", "No"}
Criticalities == {"Low", "Medium", "High"}
Dependencies == {"Advisory", "Fully Automated"}

\* A multiselect with its "Other" text input: <<selection, other text>>.
\* The text input exists only while "Other" is selected (lines 88, 102, 117).
DataSourceInputs ==
    { <<<<>>, <<>>>>,
      <<<<"Internal">>, <<>>>>,
      <<<<"External">>, <<>>>>,
      <<<<"Internal", "Third-party">>, <<>>>>,
      <<<<"Other">>, <<"Partners">>>> }

PerformanceMetricInputs ==
    { <<<<>>, <<>>>>,
      <<<<"Accuracy">>, <<>>>>,
      <<<<"Accuracy", "Recall">>, <<>>>>,
      <<<<"Other">>, <<"CustomMetric">>>>,
      <<<<"Other">>, <<" ", "Accuracy", " ">>>> }

RegsInputs ==
    { <<<<>>, <<>>>>,
      <<<<"GDPR">>, <<>>>>,
      <<<<"Other">>, <<"SOX">>>> }

\* The widgets, by the name of the variable each one sets
RadioFields ==
    {"data_sensitivity", "data_bias_checks", "data_encryption", "model_explainable",
     "bias_fairness", "model_drift", "fallback", "consent", "auditability",
     "access_controls", "cyber_measures", "privacy_by_design"}
FieldNames ==
    RadioFields \cup {"criticality", "dependency", "data_sources",
                      "performance_metrics", "regs"}

\* What each widget returns untouched: a radio and a selectbox their first
\* option, a multiselect nothing
DefaultRadio == "Yes"
DefaultCriticality == "Low"
DefaultDependency == "Advisory"
DefaultMulti == <<<<>>, <<>>>>

\* The value of a radio the user has changed (D) or left alone
Radio(D, f) == IF f \in D THEN "No" ELSE DefaultRadio
\* The values a widget can hold when the user has changed it, or its default
Choice(D, f, values, default) == IF f \in D THEN values \ {default} ELSE {default}

\* The sets of widgets a user changes before a submit: none, any single one,
\* the two that leave no unfavourable answer, every radio and selectbox
ChangedFields ==
    {{}} \cup {{f} : f \in FieldNames}
    \cup {{"data_sensitivity", "performance_metrics"},
          RadioFields \cup {"criticality", "dependency"}}

AllRadioAnswers ==
    [data_sensitivity : YesNo, data_bias_checks : YesNo, data_encryption : YesNo,
     model_explainable : YesNo, bias_fairness : YesNo, model_drift : YesNo,
     criticality : Criticalities, dependency : Dependencies, fallback : YesNo,
     consent : YesNo, auditability : YesNo,
     access_controls : YesNo, cyber_measures : YesNo, privacy_by_design : YesNo]

RadioAnswers(D) ==
    [data_sensitivity |-> Radio(D, "data_sensitivity"),
     data_bias_checks |-> Radio(D, "data_bias_checks"),
     data_encryption |-> Radio(D, "data_encryption"),
     model_explainable |-> Radio(D, "model_explainable"),
     bias_fairness |-> Radio(D, "bias_fairness"),
     model_drift |-> Radio(D, "model_drift"),
     fallback |-> Radio(D, "fallback"),
     consent |-> Radio(D, "consent"),
     auditability |-> Radio(D, "auditability"),
     access_controls |-> Radio(D, "access_controls"),
     cyber_measures |-> Radio(D, "cyber_measures"),
     privacy_by_design |-> Radio(D, "privacy_by_design")]

SelectAnswers(crit, dep) == [criticality |-> crit, dependency |-> dep]

MultiAnswers(ds, pm, rg) ==
    [data_sources_sel |-> ds[1], data_sources_other |-> ds[2],
     performance_metrics_sel |-> pm[1], performance_metrics_other |-> pm[2],
     regs_sel |-> rg[1], regs_other |-> rg[2]]

----------------------------------------------------------------------------
(* The scores: lines 134-183 *)

\* a faulty variant of source_risk_arg: the sources are passed on unfiltered
source_risk_arg_unfiltered(ds) == ds

\* line 138: the argument of max_source_risk
source_risk_arg(ds) == SelectSeq(ds, LAMBDA s : InMapping(s))

\* lines 134-139 (the fourth component needs max_source_risk to return)
data_risk_components(a, source_risk) ==
    << IF a.data_sensitivity = "Yes" THEN 50 ELSE 20,
       IF a.data_bias_checks = "No" THEN 40 ELSE 20,
       IF a.data_encryption = "No" THEN 40 ELSE 20,
       source_risk * 10 >>

\* lines 142-147
model_risk_components(a, pm) ==
    << IF a.model_explainable = "No" THEN 40 ELSE 20,
       IF a.bias_fairness = "No" THEN 40 ELSE 20,
       performance_metrics_risk(pm),
       IF a.model_drift = "No" THEN 40 ELSE 20 >>

\* line 150
crit_map(c) == CASE c = "Low" -> 2 [] c = "Medium" -> 3 [] c = "High" -> 4 [] OTHER -> 3
\* line 151
dep_map(d) == CASE d = "Advisory" -> 2 [] d = "Fully Automated" -> 4 [] OTHER -> 3

\* lines 152-156
operational_risk_components(a) ==
    << crit_map(a.criticality) * 10,
       dep_map(a.dependency) * 10,
       IF a.fallback = "No" THEN 40 ELSE 20 >>

\* lines 159-164
regulatory_risk_components(a, rs) ==
    << regulatory_base_risk(rs) * 10,
       IF a.consent = "No" THEN 40 ELSE 20,
       IF a.auditability = "No" THEN 40 ELSE 20 >>

\* lines 167-171
security_risk_components(a) ==
    << IF a.access_controls = "No" THEN 40 ELSE 20,
       IF a.cyber_measures = "No" THEN 40 ELSE 20,
       IF a.privacy_by_design = "No" THEN 40 ELSE 20 >>

\* line 174, in hundredths
weights == [Data |-> 20, Model |-> 20, Operational |-> 20, Regulatory |-> 20,
            Security |-> 20]

\* a faulty variant of total_weighted: the operational score weighs 40%
total_weighted_heavy_operational(d, m, o, r, s) ==
    PyRound(d * weights.Data + m * weights.Model + o * 2 * weights.Operational
              + r * weights.Regulatory + s * weights.Security, 100)

\* lines 175-181: round(sum of score * weight, 2), in hundredths
total_weighted(d, m, o, r, s) ==
    PyRound(d * weights.Data + m * weights.Model + o * weights.Operational
              + r * weights.Regulatory + s * weights.Security, 100)

\* lines 140-183: the "scores" the payload carries
compute_scores(c, criticality) ==
    LET d == MeanScore(c.data)
        m == MeanScore(c.model)
        o == MeanScore(c.operational)
        r == MeanScore(c.regulatory)
        s == MeanScore(c.security)
        t == total_weighted(d, m, o, r, s)
        level == categorize_total_risk(t)
    IN  [data_risk |-> d, model_risk |-> m, operational_risk |-> o,
         regulatory_risk |-> r, security_risk |-> s, total_weighted |-> t,
         risk_level |-> level,
         recommendation |-> decision_matrix(level, criticality)]

----------------------------------------------------------------------------
(* The heuristic risks: lines 186-231 *)

\* lines 186-231: fifteen "if" statements, each appending one finding
build_heuristic_risks(a, ds, pm) ==
    LET r0  == <<>>
        r1  == IF a.data_sensitivity = "Yes"
               THEN add_risk(r0, "Data", "Sensitive data present (PII/PHI/Financial/Confidential).",
                             "High", "DLP, minimization, lawful basis, cross-border review.")
               ELSE r0
        r2  == IF Contains(ds, "External") \/ Contains(ds, "Third-party")
               THEN add_risk(r1, "Data", "External/Third-party data increases contractual/compliance risk.",
                             "Medium", "Validate licenses/DPAs, provenance checks.")
               ELSE r1
        r3  == IF a.data_bias_checks = "No"
               THEN add_risk(r2, "Data/Model", "Bias & quality checks missing.",
                             "High", "Run bias detection, fairness metrics & mitigation.")
               ELSE r2
        r4  == IF a.data_encryption = "No"
               THEN add_risk(r3, "Security/Privacy", "Encryption/retention controls missing.",
                             "High", "Enable at-rest/in-transit encryption, retention policy.")
               ELSE r3
        r5  == IF a.model_explainable = "No"
               THEN add_risk(r4, "Model", "Lack of explainability.",
                             "Medium", "XAI techniques, model cards, decision logs.")
               ELSE r4
        r6  == IF a.bias_fairness = "No"
               THEN add_risk(r5, "Model", "Fairness checks not implemented.",
                             "High", "Define fairness criteria, monitor disparate impact.")
               ELSE r5
        r7  == IF performance_metrics_risk(pm) >= 30
               THEN add_risk(r6, "Model", "Insufficient performance metrics (e.g., only Accuracy).",
                             "Medium", "Track Precision/Recall/F1; align to harm.")
               ELSE r6
        r8  == IF a.model_drift = "No"
               THEN add_risk(r7, "Model/Ops", "No drift monitoring.",
                             "Medium", "Drift alerts, retraining schedule, shadow eval.")
               ELSE r7
        r9  == IF a.dependency = "Fully Automated" /\ a.criticality = "High"
               THEN add_risk(r8, "Operational", "High criticality with fully automated decisions.",
                             "High", "Add human-in-the-loop, approvals, rollback.")
               ELSE r8
        r10 == IF a.fallback = "No"
               THEN add_risk(r9, "Operational", "No fallback/override.",
                             "High", "Manual override, contingency plan.")
               ELSE r9
        r11 == IF a.consent = "No"
               THEN add_risk(r10, "Compliance", "Consent management missing.",
                             "High", "Capture/manage consent, notice/opt-out, DPIA.")
               ELSE r10
        r12 == IF a.auditability = "No"
               THEN add_risk(r11, "Compliance", "Limited auditability/traceability.",
                             "Medium", "Decision logs, model lineage, reproducibility.")
               ELSE r11
        r13 == IF a.access_controls = "No"
               THEN add_risk(r12, "Security", "RBAC missing.",
                             "High", "Least privilege, periodic access reviews.")
               ELSE r12
        r14 == IF a.cyber_measures = "No"
               THEN add_risk(r13, "Security", "Cybersecurity measures incomplete.",
                             "High", "Vuln mgmt, monitoring, incident response.")
               ELSE r13
        r15 == IF a.privacy_by_design = "No"
               THEN add_risk(r14, "Privacy", "Privacy-by-design not embedded.",
                             "Medium", "Data minimization, purpose limitation, PIA.")
               ELSE r14
    IN  r15

----------------------------------------------------------------------------
(* The script up to the submit button: lines 65-231 *)

NoScores == [data_risk |-> 0, model_risk |-> 0, operational_risk |-> 0,
             regulatory_risk |-> 0, security_risk |-> 0, total_weighted |-> 0,
             risk_level |-> "", recommendation |-> ""]
NoComponents == [data |-> <<>>, model |-> <<>>, operational |-> <<>>,
                 regulatory |-> <<>>, security |-> <<>>]
NoAI == [risks |-> [pytype |-> "NoneType"], requests |-> <<>>, outcome |-> "none",
         response |-> [kind |-> "none", risks |-> [pytype |-> "NoneType"]]]
NoDelivery == [webhook |-> "none", email |-> "none"]

NoCall == [fn |-> "none"]
NotReturned == [done |-> FALSE]

\* Every variable but the form's, before the script has run
Blank ==
    /\ pc = "form"
    /\ call = NoCall
    /\ returned = NotReturned
    /\ data_sources = <<>>
    /\ performance_metrics = <<>>
    /\ regs = <<>>
    /\ components = NoComponents
    /\ scores = NoScores
    /\ heuristic_risks = <<>>
    /\ fault = "none"
    /\ ai = NoAI
    /\ payload = <<>>
    /\ warnings = <<>>
    /\ routed = FALSE
    /\ delivery = NoDelivery

\* lines 77-231: the script computes the sources, the scores and the heuristic
\* risks of the answers; an exception leaves the script there
Score ==
    /\ pc = "form"
    /\ LET a   == answers
           ds  == enrich_with_other(a.data_sources_sel, a.data_sources_other)
           pm  == enrich_with_other(a.performance_metrics_sel, a.performance_metrics_other)
           rg  == enrich_with_other(a.regs_sel, a.regs_other)
           msr == max_source_risk(source_risk_arg(ds))
       IN  IF msr.exc # "none"
           THEN /\ fault' = msr.exc
                /\ pc' = "crashed"
                /\ data_sources' = ds
                /\ performance_metrics' = pm
                /\ regs' = rg
                /\ UNCHANGED <<components, scores, heuristic_risks>>
           ELSE LET c == [data |-> data_risk_components(a, msr.val),
                          model |-> model_risk_components(a, pm),
                          operational |-> operational_risk_components(a),
                          regulatory |-> regulatory_risk_components(a, rg),
                          security |-> security_risk_components(a)]
                IN  /\ data_sources' = ds
                    /\ performance_metrics' = pm
                    /\ regs' = rg
                    /\ components' = c
                    /\ scores' = compute_scores(c, a.criticality)
                    /\ heuristic_risks' = build_heuristic_risks(a, ds, pm)
                    /\ pc' = "scored"
                    /\ fault' = "none"
    /\ UNCHANGED <<formVars, callVars, submitVars>>

\* The form as a user leaves it who changed one of these sets of widgets
FormFilled ==
    \E D \in ChangedFields :
      \E crit \in Choice(D, "criticality", Criticalities, DefaultCriticality),
         dep \in Choice(D, "dependency", Dependencies, DefaultDependency),
         ds \in Choice(D, "data_sources", DataSourceInputs, DefaultMulti),
         pm \in Choice(D, "performance_metrics", PerformanceMetricInputs, DefaultMulti),
         rg \in Choice(D, "regs", RegsInputs, DefaultMulti) :
        answers = RadioAnswers(D) @@ SelectAnswers(crit, dep) @@ MultiAnswers(ds, pm, rg)

\* The three multiselects together: each alone away from its default, and
\* the combinations that give the extreme scores
MultiInputs ==
    { <<ds, DefaultMulti, DefaultMulti>> : ds \in DataSourceInputs }
    \cup { <<DefaultMulti, pm, DefaultMulti>> : pm \in PerformanceMetricInputs }
    \cup { <<DefaultMulti, DefaultMulti, rg>> : rg \in RegsInputs }
    \cup { << <<<<"Internal", "Third-party">>, <<>>>>, DefaultMulti, <<<<"GDPR">>, <<>>>> >>,
           << <<<<"Internal">>, <<>>>>, <<<<"Accuracy", "Recall">>, <<>>>>, DefaultMulti >>,
           << DefaultMulti, <<<<"Accuracy", "Recall">>, <<>>>>, <<<<"GDPR">>, <<>>>> >>,
           << <<<<"Other">>, <<"Partners">>>>, <<<<"Other">>, <<"CustomMetric">>>>,
              <<<<"Other">>, <<"SOX">>>> >> }

\* Every answer to the radios and selectboxes, with the multiselects above.
\* No secret matters before the submit.
InitScore ==
    /\ \E r \in AllRadioAnswers, m \in MultiInputs :
          answers = r @@ MultiAnswers(m[1], m[2], m[3])
    /\ secrets = {}
    /\ Blank

NextScore == Score

SpecScore == InitScore /\ [][NextScore]_vars

----------------------------------------------------------------------------
(* AI risk generation: lines 234-294 *)

PyList(items) == [pytype |-> "list", items |-> items]

\* bool(v) of a Python value
Truthy(v) ==
    CASE v.pytype = "list" -> v.items # <<>>
      [] v.pytype = "NoneType" -> FALSE
      [] OTHER -> v.truthy

IsDict(item) == "pytype" \notin DOMAIN item

\* Findings a model may send
GoodItem == [Category |-> "Data", Risk |-> "Sensitive data in prompts.",
             Severity |-> "High", Recommended_Control |-> "Mask PII."]
\* Items that are not findings: keys missing, a severity outside the three
\* levels, not an object at all
PartialItem == [Risk |-> "Something is off."]
BadSeverityItem == [Category |-> "Data", Risk |-> "Leak.",
                    Severity |-> "Critical", Recommended_Control |-> "Fix."]
StringItem == [pytype |-> "str"]
Items == {GoodItem, PartialItem, BadSeverityItem, StringItem}

RECURSIVE SeqsUpTo(_, _)
SeqsUpTo(S, n) ==
    IF n = 0 THEN {<<>>}
    ELSE LET shorter == SeqsUpTo(S, n - 1)
         IN  shorter \cup {Append(q, x) : q \in shorter, x \in S}

\* What json.loads(content)["risks"] can be: a list of items, or something else
RiskValues ==
    {PyList(q) : q \in SeqsUpTo(Items, MaxAIRisks)}
    \cup {[pytype |-> "NoneType"],
          [pytype |-> "str", truthy |-> FALSE], [pytype |-> "str", truthy |-> TRUE],
          [pytype |-> "int", truthy |-> TRUE],
          [pytype |-> "dict", truthy |-> TRUE]}

\* What the one request can come to.  "exception": requests.post raises (no
\* connection, timeout after 30 s); "http_error": raise_for_status raises
\* (401, 429, 5xx); "bad_body": the body is no chat completion; "bad_json":
\* the content is no JSON; "not_object": the content is JSON but no object;
\* "no_risks": an object without "risks"; "risks": an object with "risks".
Responses ==
    {[kind |-> k, risks |-> [pytype |-> "NoneType"]] :
        k \in {"exception", "http_error", "bad_body", "bad_json", "not_object", "no_risks"}}
    \cup {[kind |-> "risks", risks |-> v] : v \in RiskValues}

NoResponse == [kind |-> "none", risks |-> [pytype |-> "NoneType"]]

\* lines 267-271 (287-291): the value returned, or an exception
read_response(resp) ==
    CASE resp.kind \in {"exception", "http_error", "bad_body", "bad_json", "not_object"}
            -> [exc |-> TRUE, value |-> PyList(<<>>)]
      [] resp.kind = "no_risks" -> [exc |-> FALSE, value |-> PyList(<<>>)]
      [] OTHER -> [exc |-> FALSE, value |-> resp.risks]

\* lines 253-294 for one provider: the request, then the return or the except
\* clause with its warning and the final "return []"
ask(provider, resp) ==
    LET got == read_response(resp)
    IN  [risks |-> got.value, requests |-> <<provider>>,
         outcome |-> IF got.exc THEN "exception" ELSE "returned",
         response |-> resp]

\* a faulty variant of generate_ai_risks: a failed Azure request is followed by a
\* request to OpenAI
generate_ai_risks_retry(secs, resp) ==
    IF "AZURE_OPENAI" \in secs
    THEN LET first == ask("azure", resp)
         IN  IF first.outcome = "exception" /\ "OPENAI_API_KEY" \in secs
             THEN [ask("openai", resp) EXCEPT !.requests = <<"azure", "openai">>]
             ELSE first
    ELSE IF "OPENAI_API_KEY" \in secs THEN ask("openai", resp)
    ELSE [risks |-> PyList(<<>>), requests |-> <<>>, outcome |-> "unconfigured",
          response |-> NoResponse]

\* lines 234-294
generate_ai_risks(secs, resp) ==
    IF "AZURE_OPENAI" \in secs THEN ask("azure", resp)
    ELSE IF "OPENAI_API_KEY" \in secs THEN ask("openai", resp)
    ELSE [risks |-> PyList(<<>>), requests |-> <<>>, outcome |-> "unconfigured",
          response |-> NoResponse]

\* lines 356-365: the loop over ai_risks calls r.get on every item; the
\* exception it raises, or "none"
display_fault(ai_risks) ==
    IF ~Truthy(ai_risks) THEN "none"
    ELSE CASE ai_risks.pytype = "list" ->
                 IF \A i \in 1..Len(ai_risks.items) : IsDict(ai_risks.items[i])
                 THEN "none" ELSE "AttributeError"
           [] ai_risks.pytype \in {"str", "dict"} -> "AttributeError"
           [] OTHER -> "TypeError"

\* a faulty variant of final_risks: nothing is substituted for missing AI risks
final_risks_no_fallback(ai_risks, heuristic) ==
    IF Truthy(ai_risks) THEN ai_risks.items ELSE <<>>

\* line 376 (reached only with ai_risks falsy or a list of dicts)
final_risks(ai_risks, heuristic) ==
    IF Truthy(ai_risks) THEN ai_risks.items ELSE heuristic

----------------------------------------------------------------------------
(* Submit & Analyze: lines 297-460 *)

\* The keys the script looks up in st.secrets (lines 255, 273, 393, 405);
\* st.secrets itself is taken to be readable
SecretKeys == {"AZURE_OPENAI", "OPENAI_API_KEY", "WEBHOOK_URL", "EMAIL"}

\* lines 299-332 (the three free-text fields, the model types and the
\* deployment environments are carried along and read by nothing modelled)
build_payload(a, ds, pm, rg, sc) ==
    [data_sources |-> ds,
     data_sensitivity |-> a.data_sensitivity,
     data_bias_checks |-> a.data_bias_checks,
     data_encryption |-> a.data_encryption,
     model_explainable |-> a.model_explainable,
     bias_fairness |-> a.bias_fairness,
     performance_metrics |-> pm,
     model_drift |-> a.model_drift,
     criticality |-> a.criticality,
     dependency |-> a.dependency,
     fallback |-> a.fallback,
     regs |-> rg,
     consent |-> a.consent,
     auditability |-> a.auditability,
     access_controls |-> a.access_controls,
     cyber_measures |-> a.cyber_measures,
     privacy_by_design |-> a.privacy_by_design,
     scores |-> sc]

\* lines 297-350: the button is pressed, the payload is built
Submit ==
    /\ pc = "scored"
    /\ payload' = build_payload(answers, data_sources, performance_metrics, regs, scores)
    /\ pc' = "ai"
    /\ UNCHANGED <<formVars, callVars, scoreVars, fault, ai, warnings, routed, delivery>>

\* line 353: the call of generate_ai_risks, with the answer the provider
\* gives to the request (if one is made); line 293 warns of an exception
GenerateAIRisks ==
    /\ pc = "ai"
    /\ \E resp \in Responses :
         LET got == generate_ai_risks(secrets, resp)
         IN  /\ ai' = got
             /\ warnings' = IF got.outcome = "exception"
                            THEN Append(warnings, "AI risk generation error")
                            ELSE warnings
    /\ pc' = "display"
    /\ UNCHANGED <<formVars, callVars, scoreVars, fault, payload, routed, delivery>>

\* lines 354-377: the risks are shown and put into the payload; an exception
\* in the loop leaves the script
Display ==
    /\ pc = "display"
    /\ LET exc == display_fault(ai.risks)
       IN  IF exc # "none"
           THEN /\ fault' = exc
                /\ pc' = "crashed"
                /\ UNCHANGED payload
           ELSE /\ payload' = payload @@
                        [identified_risks |-> final_risks(ai.risks, heuristic_risks)]
                /\ pc' = "webhook"
                /\ UNCHANGED fault
    /\ UNCHANGED <<formVars, callVars, scoreVars, ai, warnings, routed, delivery>>

WebhookOutcomes == {"2xx", "status", "exception"}
EmailOutcomes == {"sent", "exception"}

\* a faulty variant of webhook_step: an exception of requests.post is not caught
webhook_step_uncaught(secs, outcome) ==
    IF "WEBHOOK_URL" \notin secs
    THEN [routed |-> FALSE, warning |-> "", exc |-> "none", outcome |-> "unconfigured"]
    ELSE CASE outcome = "2xx" ->
                 [routed |-> TRUE, warning |-> "", exc |-> "none", outcome |-> outcome]
           [] outcome = "status" ->
                 [routed |-> FALSE, warning |-> "Webhook status", exc |-> "none",
                  outcome |-> outcome]
           [] OTHER ->
                 [routed |-> FALSE, warning |-> "", exc |-> "ConnectionError",
                  outcome |-> outcome]

\* lines 392-403
webhook_step(secs, outcome) ==
    IF "WEBHOOK_URL" \notin secs
    THEN [routed |-> FALSE, warning |-> "", exc |-> "none", outcome |-> "unconfigured"]
    ELSE CASE outcome = "2xx" ->
                 [routed |-> TRUE, warning |-> "", exc |-> "none", outcome |-> outcome]
           [] outcome = "status" ->
                 [routed |-> FALSE, warning |-> "Webhook status", exc |-> "none",
                  outcome |-> outcome]
           [] OTHER ->
                 [routed |-> FALSE, warning |-> "Webhook error", exc |-> "none",
                  outcome |-> outcome]

FindingKeys == {"Category", "Risk", "Severity", "Recommended_Control"}

\* lines 405-457; line 418 reads the four keys of every finding, and the
\* KeyError of a missing one is caught like any other exception
email_step(secs, was_routed, risks, outcome) ==
    IF was_routed \/ "EMAIL" \notin secs
    THEN [routed |-> was_routed, warning |-> "", exc |-> "none", outcome |-> "skipped"]
    ELSE IF \E i \in 1..Len(risks) : ~(FindingKeys \subseteq DOMAIN risks[i])
    THEN [routed |-> FALSE, warning |-> "SMTP error", exc |-> "none",
          outcome |-> "exception"]
    ELSE IF outcome = "sent"
    THEN [routed |-> TRUE, warning |-> "", exc |-> "none", outcome |-> outcome]
    ELSE [routed |-> FALSE, warning |-> "SMTP error", exc |-> "none",
          outcome |-> outcome]

\* What a routing step leaves behind
Routed(step, which) ==
    IF step.exc # "none"
    THEN /\ fault' = step.exc
         /\ pc' = "crashed"
         /\ UNCHANGED <<routed, warnings, delivery>>
    ELSE /\ routed' = step.routed
         /\ warnings' = IF step.warning # "" THEN Append(warnings, step.warning)
                        ELSE warnings
         /\ delivery' = [delivery EXCEPT ![which] = step.outcome]
         /\ pc' = IF which = "webhook" THEN "email" ELSE "done"
         /\ UNCHANGED fault

\* lines 391-403: the payload is posted to the webhook, if there is one
Webhook ==
    /\ pc = "webhook"
    /\ \E outcome \in WebhookOutcomes : Routed(webhook_step(secrets, outcome), "webhook")
    /\ UNCHANGED <<formVars, callVars, scoreVars, ai, payload>>

\* lines 405-460: the email is sent, if nothing is routed yet and there is a
\* mail account; the run ends
Email ==
    /\ pc = "email"
    /\ \E outcome \in EmailOutcomes :
         Routed(email_step(secrets, routed, payload.identified_risks, outcome), "email")
    /\ UNCHANGED <<formVars, callVars, scoreVars, ai, payload>>

\* A filled form, in a deployment with any set of secrets
Init ==
    /\ FormFilled
    /\ secrets \in SUBSET SecretKeys
    /\ Blank

Next == Score \/ Submit \/ GenerateAIRisks \/ Display \/ Webhook \/ Email

Spec == Init /\ [][Next]_vars

----------------------------------------------------------------------------
(* The helpers on their own *)

\* Every variable of the script, for a helper called on its own
NoScript ==
    /\ pc = "call"
    /\ answers = <<>>
    /\ secrets = {}
    /\ data_sources = <<>>
    /\ performance_metrics = <<>>
    /\ regs = <<>>
    /\ components = NoComponents
    /\ scores = NoScores
    /\ heuristic_risks = <<>>
    /\ fault = "none"
    /\ ai = NoAI
    /\ payload = <<>>
    /\ warnings = <<>>
    /\ routed = FALSE
    /\ delivery = NoDelivery

scriptVars == <<pc, formVars, scoreVars, fault, submitVars>>

\* Sequences without repetition of at most n members of S: what a
\* multiselect returns
RECURSIVE Selections(_, _)
Selections(S, n) ==
    IF n = 0 THEN {<<>>}
    ELSE LET shorter == Selections(S, n - 1)
         IN  shorter \cup UNION {{Append(q, x) : x \in S \ {q[i] : i \in 1..Len(q)}} :
                                      q \in shorter}

EnrichOptions == {"Internal", "External", "Other"}
TextAtoms == {",", " ", "X", "Other"}

\* The call of the documentation: (["Internal","Other"], "Partners, Vendor X")
ExampleCall ==
    [fn |-> "enrich_with_other", selected_list |-> <<"Internal", "Other">>,
     other_text |-> <<"Partners", ",", " ", "Vendor", " ", "X">>]

\* enrich_with_other called with any selection and any text
InitEnrich ==
    /\ call \in {[fn |-> "enrich_with_other", selected_list |-> sel, other_text |-> t] :
                    sel \in Selections(EnrichOptions, MaxSelected),
                    t \in SeqsUpTo(TextAtoms, MaxText)} \cup {ExampleCall}
    /\ returned = NotReturned
    /\ NoScript

\* lines 20-26: the call returns
Enrich ==
    /\ call.fn = "enrich_with_other"
    /\ ~returned.done
    /\ returned' = [done |-> TRUE,
                    value |-> enrich_with_other(call.selected_list, call.other_text)]
    /\ UNCHANGED <<call, scriptVars>>

NextEnrich == Enrich

SpecEnrich == InitEnrich /\ [][NextEnrich]_vars

\* Totals of two decimals from 1.00 to 5.00, in hundredths
Totals == 100..500

\* categorize_total_risk called on two totals, the first not above the second
InitCategorize ==
    /\ call \in {[fn |-> "categorize_total_risk", a |-> x, b |-> y] :
                    x \in Totals, y \in Totals}
    /\ call.a <= call.b
    /\ returned = NotReturned
    /\ NoScript

\* lines 40-43: both calls return
Categorize ==
    /\ call.fn = "categorize_total_risk"
    /\ ~returned.done
    /\ returned' = [done |-> TRUE, a |-> categorize_total_risk(call.a),
                    b |-> categorize_total_risk(call.b)]
    /\ UNCHANGED <<call, scriptVars>>

NextCategorize == Categorize

SpecCategorize == InitCategorize /\ [][NextCategorize]_vars

\* The longest metric list performance_metrics_risk is called on
MaxMetrics == 3

\* The names a metric list can hold: the four standard options of the
\* multiselect (line 100), and what the "Other" text can add (line 103): a
\* custom name, a standard name in another case, the word "Other" itself
MetricNames ==
    {"Accuracy", "Precision", "Recall", "F1 Score", "CustomMetric", "accuracy", "Other"}

\* performance_metrics_risk called on any list of these names: the text of
\* "Other" can repeat a name and can name a standard metric
InitMetrics ==
    /\ call \in {[fn |-> "performance_metrics_risk", metrics |-> m] :
                    m \in SeqsUpTo(MetricNames, MaxMetrics)}
    /\ returned = NotReturned
    /\ NoScript

\* lines 53-60: the call returns
Metrics ==
    /\ call.fn = "performance_metrics_risk"
    /\ ~returned.done
    /\ returned' = [done |-> TRUE, value |-> performance_metrics_risk(call.metrics)]
    /\ UNCHANGED <<call, scriptVars>>

NextMetrics == Metrics

SpecMetrics == InitMetrics /\ [][NextMetrics]_vars

----------------------------------------------------------------------------
(* Properties of the scores and of the heuristic risks (SpecScore) *)

RiskLevels == {"Low", "Medium", "High"}

\* The decision table of the documentation
DecisionTable(level, crit) ==
    CASE level = "Low" -> "Approve"
      [] level = "Medium" /\ crit \in {"Low", "Medium"} -> "Approve"
      [] level = "Medium" /\ crit = "High" -> "Approve with conditions"
      [] level = "High" /\ crit = "High" -> "Escalate for detailed review"
      [] level = "High" /\ crit \in {"Low", "Medium"} -> "Reject or redesign"

\* C4: decision_matrix gives the table's recommendation for each of the nine
\* (risk level, criticality) pairs and never "Review", and the recommendation
\* the script computes for an answer set is the table's and never "Review".
C4_DecisionMatrixTotal ==
    /\ \A level \in RiskLevels, crit \in Criticalities :
          /\ decision_matrix(level, crit) = DecisionTable(level, crit)
          /\ decision_matrix(level, crit) # "Review"
    /\ pc = "scored" =>
          /\ scores.risk_level \in RiskLevels
          /\ scores.recommendation = DecisionTable(scores.risk_level, answers.criticality)
          /\ scores.recommendation # "Review"

\* C4 witness: a High total with Low criticality is scored "Reject or redesign"
C4_Witness ==
    /\ pc = "scored"
    /\ scores.risk_level = "High"
    /\ answers.criticality = "Low"
    /\ scores.recommendation = "Reject or redesign"

InRange(x) == 100 <= x /\ x <= 500

\* C5: for every answer set no exception leaves the scoring, each of the five
\* dimension scores and the weighted total lies in [1,5], and with no
\* recognised data source selected the source-risk component is 3.
C5_ScoresInRange ==
    /\ fault = "none"
    /\ pc # "crashed"
    /\ pc = "scored" =>
          /\ InRange(scores.data_risk)
          /\ InRange(scores.model_risk)
          /\ InRange(scores.operational_risk)
          /\ InRange(scores.regulatory_risk)
          /\ InRange(scores.security_risk)
          /\ InRange(scores.total_weighted)
          /\ Len(components.data) = 4
          /\ (\A i \in 1..Len(data_sources) : ~InMapping(data_sources[i]))
                => components.data[4] = 30

\* C5 witness: data sources that are only a free-text "Other" entry are scored
\* with the source-risk component 3
C5_Witness ==
    /\ pc = "scored"
    /\ data_sources = <<"Partners">>
    /\ components.data[4] = 30
    /\ InRange(scores.data_risk)

\* The findings of the rule table, in its order, by their descriptions
RuleRisk ==
    << "Sensitive data present (PII/PHI/Financial/Confidential).",
       "External/Third-party data increases contractual/compliance risk.",
       "Bias & quality checks missing.",
       "Encryption/retention controls missing.",
       "Lack of explainability.",
       "Fairness checks not implemented.",
       "Insufficient performance metrics (e.g., only Accuracy).",
       "No drift monitoring.",
       "High criticality with fully automated decisions.",
       "No fallback/override.",
       "Consent management missing.",
       "Limited auditability/traceability.",
       "RBAC missing.",
       "Cybersecurity measures incomplete.",
       "Privacy-by-design not embedded." >>

\* The predicate of each rule, on the answers of the state
RuleHolds(i) ==
    CASE i = 1 -> answers.data_sensitivity = "Yes"
      [] i = 2 -> Contains(data_sources, "External") \/ Contains(data_sources, "Third-party")
      [] i = 3 -> answers.data_bias_checks = "No"
      [] i = 4 -> answers.data_encryption = "No"
      [] i = 5 -> answers.model_explainable = "No"
      [] i = 6 -> answers.bias_fairness = "No"
      [] i = 7 -> components.model[3] >= 30
      [] i = 8 -> answers.model_drift = "No"
      [] i = 9 -> answers.dependency = "Fully Automated" /\ answers.criticality = "High"
      [] i = 10 -> answers.fallback = "No"
      [] i = 11 -> answers.consent = "No"
      [] i = 12 -> answers.auditability = "No"
      [] i = 13 -> answers.access_controls = "No"
      [] i = 14 -> answers.cyber_measures = "No"
      [] i = 15 -> answers.privacy_by_design = "No"

\* The rule a finding comes from, by its description (0: from none)
RuleOf(finding) ==
    IF \E i \in 1..15 : RuleRisk[i] = finding.Risk
    THEN CHOOSE i \in 1..15 : RuleRisk[i] = finding.Risk
    ELSE 0

\* The rules whose findings are in the heuristic risks, in their order
FiredRules == [k \in 1..Len(heuristic_risks) |-> RuleOf(heuristic_risks[k])]

\* How often the finding of rule i is in the heuristic risks
Occurrences(i) == Cardinality({k \in 1..Len(FiredRules) : FiredRules[k] = i})

\* C8: the heuristic risks hold exactly one finding of each of the fifteen
\* rules whose predicate holds and none of a rule whose predicate does not,
\* in the order of the table; High criticality, Fully Automated and no
\* fallback give both the fully-automated finding and the no-fallback finding.
C8_AllRulesFire ==
    pc = "scored" =>
        LET fired == FiredRules
        IN  /\ \A k \in 1..Len(fired) : fired[k] \in 1..15
            /\ \A k \in 1..(Len(fired) - 1) : fired[k] < fired[k + 1]
            /\ {fired[k] : k \in 1..Len(fired)} = {i \in 1..15 : RuleHolds(i)}
            /\ (answers.criticality = "High" /\ answers.dependency = "Fully Automated"
                  /\ answers.fallback = "No")
                 => \E k \in 1..(Len(fired) - 1) : fired[k] = 9 /\ fired[k + 1] = 10

\* C8 witness: High criticality, Fully Automated, no fallback, and both
\* findings among the heuristic risks
C8_Witness ==
    /\ pc = "scored"
    /\ answers.criticality = "High"
    /\ answers.dependency = "Fully Automated"
    /\ answers.fallback = "No"
    /\ Occurrences(9) = 1
    /\ Occurrences(10) = 1
    /\ Len(heuristic_risks) >= 2

----------------------------------------------------------------------------
(* Properties of categorize_total_risk (SpecCategorize) *)

Rank(level) == CASE level = "Low" -> 1 [] level = "Medium" -> 2 [] level = "High" -> 3

\* The category the documentation gives a total (in hundredths)
DocumentedCategory(total) ==
    CASE total >= 350 -> "High"
      [] 250 <= total /\ total < 350 -> "Medium"
      [] OTHER -> "Low"

\* C6: categorize_total_risk returns High from 3.5 on, Medium from 2.5 to
\* below 3.5 and Low otherwise, and of two totals a <= b in [1,5] the
\* category of a is not above the category of b.
C6_CategorizeMonotonic ==
    returned.done =>
        /\ returned.a = DocumentedCategory(call.a)
        /\ returned.b = DocumentedCategory(call.b)
        /\ Rank(returned.a) <= Rank(returned.b)

\* C6 witness: 3.49 and 3.50 are categorized Medium and High
C6_Witness ==
    /\ returned.done
    /\ call.a = 349
    /\ call.b = 350
    /\ returned.a = "Medium"
    /\ returned.b = "High"

----------------------------------------------------------------------------
(* Properties of enrich_with_other (SpecEnrich) *)

RECURSIVE Scan(_, _)
\* The pieces of a text between its commas, read from left to right; cur is
\* the piece being read
Scan(text, cur) ==
    IF text = <<>> THEN <<cur>>
    ELSE IF Head(text) = "," THEN <<cur>> \o Scan(Tail(text), <<>>)
    ELSE Scan(Tail(text), Append(cur, Head(text)))

\* A piece without the blanks before its first and after its last other atom
Trimmed(piece) ==
    LET solid == {i \in 1..Len(piece) : piece[i] # " "}
    IN  IF solid = {} THEN <<>>
        ELSE SubSeq(piece, CHOOSE i \in solid : \A j \in solid : i <= j,
                           CHOOSE i \in solid : \A j \in solid : j <= i)

\* The values a text stands for: split on commas, each piece trimmed, the
\* empty ones dropped
TextValues(text) ==
    LET pieces  == Scan(text, <<>>)
        trimmed == [i \in 1..Len(pieces) |-> Trimmed(pieces[i])]
        kept    == SelectSeq(trimmed, LAMBDA x : x # <<>>)
    IN  [i \in 1..Len(kept) |-> Join(kept[i])]

WithoutOther(selected) == SelectSeq(selected, LAMBDA x : x # "Other")

CountOf(seq, x) == Cardinality({i \in 1..Len(seq) : seq[i] = x})

----------------------------------------------------------------------------
(* Properties of a submission (Spec) *)

\* The payload holds the findings
HasFindings == "identified_risks" \in DOMAIN payload

\* The AI step is over
AIDone == ai.outcome # "none"

\* What the heuristic strategy produces for the answers of the state
HeuristicFindings == build_heuristic_risks(answers, data_sources, performance_metrics)

EmptyArray(v) == v.pytype = "list" /\ v.items = <<>>

\* The AI strategy is unconfigured, or its request failed in transport, or it
\* returned an empty array
FallbackCase ==
    \/ ai.outcome = "unconfigured"
    \/ ai.response.kind \in {"exception", "http_error"}
    \/ ai.outcome = "returned" /\ EmptyArray(ai.risks)

\* C1: with the AI strategy unconfigured, failed in transport or returning an
\* empty array, the submission reaches the payload and the findings put into
\* it are the list the heuristic strategy produces for the same answers.
C1_FallbackDeterminism ==
    FallbackCase =>
        /\ pc # "crashed"
        /\ pc \in {"webhook", "email", "done"} => HasFindings
        /\ HasFindings => payload.identified_risks = HeuristicFindings

\* C1 witness: a run is over whose AI request failed in transport and whose
\* payload holds the (non-empty) heuristic findings
C1_Witness ==
    /\ pc = "done"
    /\ ai.response.kind = "exception"
    /\ HasFindings
    /\ payload.identified_risks # <<>>
    /\ payload.identified_risks = heuristic_risks

\* A "risks" value that is a list of findings as the schema has them
Conforms(v) ==
    /\ v.pytype = "list"
    /\ \A i \in 1..Len(v.items) :
          /\ IsDict(v.items[i])
          /\ FindingKeys \subseteq DOMAIN v.items[i]
          /\ v.items[i].Severity \in {"Low", "Medium", "High"}

\* The response does not parse, or parses and violates the schema
Rejectable ==
    \/ ai.response.kind \in {"bad_json", "not_object"}
    \/ ai.response.kind = "risks" /\ ~Conforms(ai.response.risks)

\* C2: after a response that does not parse as JSON or violates the Finding
\* schema, the findings in the payload are the heuristic findings.
C2_OnlyValidAccepted ==
    (Rejectable /\ HasFindings) => payload.identified_risks = HeuristicFindings

\* C3: whatever the AI call comes to, no exception leaves the run and the run
\* reaches the point where the payload holds a findings list.
C3_NoEngineError ==
    /\ fault = "none"
    /\ pc # "crashed"
    /\ pc \in {"webhook", "email", "done"} => HasFindings

\* C7: one submission makes at most one request to a text-generation provider,
\* whichever providers are configured, and after a failed request no second
\* one: the findings are the heuristic ones.
C7_SingleAttempt ==
    /\ Len(ai.requests) <= 1
    /\ AIDone =>
          Len(ai.requests) = IF secrets \cap {"AZURE_OPENAI", "OPENAI_API_KEY"} = {}
                             THEN 0 ELSE 1
    /\ ai.outcome = "exception" =>
          /\ pc # "crashed"
          /\ HasFindings => payload.identified_risks = HeuristicFindings

\* C7 witness: both providers are configured, the request to the first failed,
\* no request went to the second, and the run ended with the heuristic findings
C7_Witness ==
    /\ pc = "done"
    /\ {"AZURE_OPENAI", "OPENAI_API_KEY"} \subseteq secrets
    /\ ai.outcome = "exception"
    /\ ai.requests = <<"azure">>
    /\ HasFindings
    /\ payload.identified_risks = heuristic_risks

\* A routing step fails in the step from this state to the next
DeliveryFails ==
    \/ pc = "webhook" /\ delivery'.webhook \in {"status", "exception"}
    \/ pc = "email" /\ delivery'.email = "exception"

\* What a routing step does to the assessment and to the warnings
DeliveryKeeps ==
    pc \in {"webhook", "email"} =>
        /\ payload' = payload
        /\ scores' = scores
        /\ heuristic_risks' = heuristic_risks
        /\ fault' = "none"
        /\ pc' # "crashed"
        /\ DeliveryFails =>
              /\ Len(warnings') = Len(warnings) + 1
              /\ SubSeq(warnings', 1, Len(warnings)) = warnings
              /\ warnings'[Len(warnings')] \in
                    {"Webhook status", "Webhook error", "SMTP error"}
        /\ ~DeliveryFails => warnings' = warnings

\* C9: a routing step, whatever its outcome, leaves the scores, the total,
\* the risk level, the recommendation and the findings of the payload as they
\* are and raises nothing; a failure adds a warning, and nothing else does.
C9_DeliveryKeepsAssessment == [][DeliveryKeeps]_vars

\* C9 witness: the webhook and the email have both failed, the run is over,
\* and the payload holds its scores and findings
C9_Witness ==
    /\ pc = "done"
    /\ delivery.webhook = "exception"
    /\ delivery.email = "exception"
    /\ HasFindings
    /\ payload.scores = scores
    /\ Len(warnings) >= 2
    /\ fault = "none"

----------------------------------------------------------------------------
(* Properties of performance_metrics_risk (SpecMetrics) *)

StandardMetrics == {"Accuracy", "Precision", "Recall", "F1 Score"}
MetricsCalled == call.fn = "performance_metrics_risk" /\ returned.done
Named(m) == {m[i] : i \in 1..Len(m)}

\* The four cases of the documentation, on a metric list m
NoMetric(m) == Len(m) = 0
AccuracyAlone(m) == Len(m) = 1 /\ m[1] = "Accuracy"
SomeStandard(m) == Named(m) \cap StandardMetrics # {} /\ ~AccuracyAlone(m)
OnlyCustom(m) == Len(m) > 0 /\ Named(m) \cap StandardMetrics = {}

\* C11: performance_metrics_risk classifies every metric list four ways: no
\* metric gives 4.5; the single metric Accuracy gives 3.5; a list with at
\* least one of Accuracy, Precision, Recall, F1 Score that is not Accuracy
\* alone gives 2.0; a non-empty list of custom metrics only gives 3.0; and
\* every list is in exactly one of the four cases.
C11_MetricsClassification ==
    MetricsCalled =>
        LET m == call.metrics
            v == returned.value
        IN  /\ NoMetric(m) => v = 45
            /\ AccuracyAlone(m) => v = 35
            /\ SomeStandard(m) => v = 20
            /\ OnlyCustom(m) => v = 30
            /\ Cardinality({c \in {"none", "accuracy", "standard", "custom"} :
                              \/ c = "none" /\ NoMetric(m)
                              \/ c = "accuracy" /\ AccuracyAlone(m)
                              \/ c = "standard" /\ SomeStandard(m)
                              \/ c = "custom" /\ OnlyCustom(m)}) = 1

\* A custom metric first and a standard one after it: 2.0
C11_Witness ==
    /\ MetricsCalled
    /\ call.metrics = <<"CustomMetric", "Accuracy">>
    /\ returned.value = 20

----------------------------------------------------------------------------
(* Scores against heuristic risks (SpecScore) *)

\* C12: for every answer set that gives no heuristic finding the weighted
\* total is below 2.5, so the risk level is Low and the recommendation is
\* Approve; and whenever the risk level is Medium or High the heuristic
\* findings are not empty.
C12_NoFindingIsLow ==
    pc = "scored" =>
        /\ heuristic_risks = <<>> =>
              /\ scores.total_weighted < 250
              /\ scores.risk_level = "Low"
              /\ scores.recommendation = "Approve"
        /\ scores.risk_level \in {"Medium", "High"} => Len(heuristic_risks) > 0

\* C12 witness: the highest total without a finding, 2.38: Medium
\* criticality, fully automated, a regulated domain, no recognised data source
C12_Witness ==
    /\ pc = "scored"
    /\ heuristic_risks = <<>>
    /\ answers.criticality = "Medium"
    /\ answers.dependency = "Fully Automated"
    /\ regs = <<"GDPR">>
    /\ data_sources = <<>>
    /\ scores.total_weighted = 238
    /\ scores.recommendation = "Approve"

=============================================================================
